---- MODULE Spec2Model ----
(***************************************************************************)
(* Model of the matrix keypad scanner of src/src/Keypad.cpp: the poll gate *)
(* getKeys, the hardware scan scanKeys, the key list update updateList,    *)
(* the per-key state machine nextKeyState and the event dispatch           *)
(* transitionTo.                                                           *)
(*                                                                         *)
(* Times are unsigned integers of TimeBits bits (uint32_t in the source,   *)
(* narrowed here). The list capacity KEYPAD_LIST_MAX and the grid size are *)
(* narrowed in the same way, so that a full list and competing presses     *)
(* occur. A run lasts MaxClock milliseconds.                               *)
(***************************************************************************)
EXTENDS Integers, Sequences, FiniteSets

\* ---------------------------------------------------------------- sizes --

\* sizeKpd.rows, sizeKpd.columns: the grid given to the constructor.
Rows == 2

Cols == 2

\* KEYPAD_LIST_MAX: the number of slots of key[].
LIST_MAX == 2

\* Width of the millisecond counter and of the time fields.
TimeBits == 4

Modulus == 2 ^ TimeBits

\* Length of a run, in milliseconds.
MaxClock == 8

\* Largest interval given to setDebounceTime / setHoldTime.
MaxInterval == 2

\* Length of a long run, in milliseconds: room for a key to go through
\* PRESSED, HOLD, RELEASED and IDLE and for its slot to be cleared.
LongClock == 12

\* A run across the overflow of the millisecond counter starts WrapLead
\* milliseconds before the overflow and lasts WrapRun milliseconds.
WrapLead == 4

WrapRun == 9

WrapStart == Modulus - WrapLead

\* ------------------------------------------------------------ constants --

IDLE == "IDLE"

PRESSED == "PRESSED"

HOLD == "HOLD"

RELEASED == "RELEASED"

KeyStates == {IDLE, PRESSED, HOLD, RELEASED}

\* KEYPAD_OPEN / KEYPAD_CLOSED: the two values of `button`.
KEYPAD_OPEN == FALSE

KEYPAD_CLOSED == TRUE

\* KEYPAD_NO_KEY: the character of an empty slot.
KEYPAD_NO_KEY == "NO_KEY"

\* key[i].kcode = -1: the code of an empty slot.
NoCode == -1

\* byte emptyPos = 0xFF: no empty slot known.
NoPos == 255

ByteMod == 256

\* A null function pointer, a registered listener, and the value of a pointer
\* member that no constructor code has written.
NULL == "NULL"

Listener == "listener"

Indeterminate == "indeterminate"

LOW == "LOW"

HIGH == "HIGH"

Slots == 0 .. (LIST_MAX - 1)

Codes == 0 .. (Rows * Cols - 1)

\* The keymaps given to begin(): row-major, one character per key code
\* (element code+1 of the sequence). Two keys may share a character.
\* The last key repeats the character of the first.
KeyChars == <<"a", "b", "c", "d", "e", "f", "g", "h">>

UserKeymap == [n \in 1 .. Rows * Cols |->
                 IF n = Rows * Cols THEN KeyChars[1] ELSE KeyChars[((n - 1) % 8) + 1]]

\* rowPins[r], columnPins[c]: distinct pin numbers.
rowPins(r) == r

columnPins(c) == Rows + c

VARIABLES
  clock,                      \* the value millis() returns now
  startTime,                  \* time of the last scan
  holdTimer,                  \* the hold anchor
  debounceTime,
  holdTime,
  keymap,
  bitMap,                     \* bitMap[r]: the closed columns of row r, as bits
  key,                        \* key[i]: kchar, kcode, kstate, stateChanged
  keypadEventListener,
  keypadStatedEventListener,
  ret,                        \* what the last getKeys() returned
  events,                     \* listener calls made by the last getKeys()
  calls,                      \* nextKeyState calls made by the last getKeys()
  pinOps,                     \* pin writes and reads made by the last getKeys()
  pressTime,                  \* history: when each PRESSED entry was pressed
  history                     \* history: what each slot's entry has been through

vars == <<clock, startTime, holdTimer, debounceTime, holdTime, keymap, bitMap,
          key, keypadEventListener, keypadStatedEventListener, ret, events,
          calls, pinOps, pressTime, history>>

\* -------------------------------------------------------------- helpers --

\* Unsigned subtraction of two time values.
TimeSub(a, b) == (a - b + Modulus) % Modulus

bitRead(x, n) == ((x \div (2 ^ n)) % 2) = 1

bitWrite(x, n, b) ==
  IF b THEN (IF bitRead(x, n) THEN x ELSE x + 2 ^ n)
       ELSE (IF bitRead(x, n) THEN x - 2 ^ n ELSE x)

\* A slot as the cleanup pass leaves it.
EmptyKey ==
  [kchar |-> KEYPAD_NO_KEY, kcode |-> NoCode, kstate |-> IDLE, stateChanged |-> FALSE]

\* ------------------------------------------------------------- scanKeys --

\* The row pins as initRowPins leaves them: outputs at HIGH.
InitRowPins == [p \in {rowPins(r) : r \in 0 .. (Rows - 1)} |-> HIGH]

\* readRow(c) while row r is driven low: the column reads low exactly when
\* the contact (r, c) is closed.
readRow(closed, r, c) == (r * Cols + c) \in closed

RECURSIVE ScanCols(_, _, _, _)
\* The inner loop of scanKeys from column c on; s = [bitMap, pinOps].
ScanCols(s, closed, r, c) ==
  IF c >= Cols THEN s
  ELSE ScanCols([bitMap |-> [s.bitMap EXCEPT ![r] = bitWrite(s.bitMap[r], c, readRow(closed, r, c))],
                 pinOps |-> Append(s.pinOps, [op |-> "read", pin |-> columnPins(c), row |-> r])],
                closed, r, c + 1)

writeRowPre(s, r) ==
  [s EXCEPT !.pinOps = Append(s.pinOps, [op |-> "write", pin |-> rowPins(r), level |-> LOW])]

\* writeRowPost that leaves the row pin as it is.
writeRowPostSkipped(s, r) == s

writeRowPost(s, r) ==
  [s EXCEPT !.pinOps = Append(s.pinOps, [op |-> "write", pin |-> rowPins(r), level |-> HIGH])]

RECURSIVE ScanRows(_, _, _)
ScanRows(s, closed, r) ==
  IF r >= Rows THEN s
  ELSE ScanRows(writeRowPost(ScanCols(writeRowPre(s, r), closed, r, 0), r), closed, r + 1)

scanKeys(bm, closed) == ScanRows([bitMap |-> bm, pinOps |-> << >>], closed, 0)

\* --------------------------------------------- transitionTo, nextKeyState --

\* transitionTo that calls the stated listener before the character listener.
transitionToStatedFirst(st, idx, nextState) ==
  LET k1 == [st.key EXCEPT ![idx].kstate = nextState, ![idx].stateChanged = TRUE]
      e1 == IF keypadStatedEventListener # NULL
              THEN Append(st.events, [listener |-> "keypadStatedEventListener",
                                      ptr |-> keypadStatedEventListener, idx |-> idx,
                                      kchar |-> k1[idx].kchar, kstate |-> nextState])
              ELSE st.events
      e2 == IF keypadEventListener # NULL
              THEN Append(e1, [listener |-> "keypadEventListener",
                               ptr |-> keypadEventListener, idx |-> idx,
                               kchar |-> k1[idx].kchar, kstate |-> "-"])
              ELSE e1
  IN [st EXCEPT !.key = k1, !.events = e2]

\* st = [key, holdTimer, events, calls, emptyPos]: the fields updateList and
\* its callees write, and the log of what they did.
transitionTo(st, idx, nextState) ==
  LET k1 == [st.key EXCEPT ![idx].kstate = nextState, ![idx].stateChanged = TRUE]
      e1 == IF keypadEventListener # NULL
              THEN Append(st.events, [listener |-> "keypadEventListener",
                                      ptr |-> keypadEventListener, idx |-> idx,
                                      kchar |-> k1[idx].kchar, kstate |-> "-"])
              ELSE st.events
      e2 == IF keypadStatedEventListener # NULL
              THEN Append(e1, [listener |-> "keypadStatedEventListener",
                               ptr |-> keypadStatedEventListener, idx |-> idx,
                               kchar |-> k1[idx].kchar, kstate |-> nextState])
              ELSE e1
  IN [st EXCEPT !.key = k1, !.events = e2]

\* nextKeyState with the release test of PRESSED placed before the hold test.
nextKeyStateOpenFirst(st, idx, button, now) ==
  LET s0 == [st EXCEPT !.key[idx].stateChanged = FALSE]
      ks == st.key[idx].kstate
  IN CASE ks = IDLE ->
            IF button = KEYPAD_CLOSED
              THEN [transitionTo(s0, idx, PRESSED) EXCEPT !.holdTimer = now]
              ELSE s0
       [] ks = PRESSED ->
            IF button = KEYPAD_OPEN
              THEN transitionTo(s0, idx, RELEASED)
              ELSE IF TimeSub(now, s0.holdTimer) > holdTime
                     THEN transitionTo(s0, idx, HOLD)
                     ELSE s0
       [] ks = HOLD ->
            IF button = KEYPAD_OPEN THEN transitionTo(s0, idx, RELEASED) ELSE s0
       [] ks = RELEASED -> transitionTo(s0, idx, IDLE)

\* nextKeyState that leaves RELEASED only once the contact is open.
nextKeyStateReleasedWaits(st, idx, button, now) ==
  LET s0 == [st EXCEPT !.key[idx].stateChanged = FALSE]
      ks == st.key[idx].kstate
  IN CASE ks = IDLE ->
            IF button = KEYPAD_CLOSED
              THEN [transitionTo(s0, idx, PRESSED) EXCEPT !.holdTimer = now]
              ELSE s0
       [] ks = PRESSED ->
            IF TimeSub(now, s0.holdTimer) > holdTime
              THEN transitionTo(s0, idx, HOLD)
              ELSE IF button = KEYPAD_OPEN
                     THEN transitionTo(s0, idx, RELEASED)
                     ELSE s0
       [] ks = HOLD ->
            IF button = KEYPAD_OPEN THEN transitionTo(s0, idx, RELEASED) ELSE s0
       [] ks = RELEASED ->
            IF button = KEYPAD_OPEN THEN transitionTo(s0, idx, IDLE) ELSE s0

\* nextKeyState that does not clear stateChanged first.
nextKeyStateKeepsFlag(st, idx, button, now) ==
  LET s0 == st
      ks == st.key[idx].kstate
  IN CASE ks = IDLE ->
            IF button = KEYPAD_CLOSED
              THEN [transitionTo(s0, idx, PRESSED) EXCEPT !.holdTimer = now]
              ELSE s0
       [] ks = PRESSED ->
            IF TimeSub(now, s0.holdTimer) > holdTime
              THEN transitionTo(s0, idx, HOLD)
              ELSE IF button = KEYPAD_OPEN
                     THEN transitionTo(s0, idx, RELEASED)
                     ELSE s0
       [] ks = HOLD ->
            IF button = KEYPAD_OPEN THEN transitionTo(s0, idx, RELEASED) ELSE s0
       [] ks = RELEASED -> transitionTo(s0, idx, IDLE)

\* nextKeyState that goes to HOLD as soon as the hold time has passed.
nextKeyStateHoldAtLeast(st, idx, button, now) ==
  LET s0 == [st EXCEPT !.key[idx].stateChanged = FALSE]
      ks == st.key[idx].kstate
  IN CASE ks = IDLE ->
            IF button = KEYPAD_CLOSED
              THEN [transitionTo(s0, idx, PRESSED) EXCEPT !.holdTimer = now]
              ELSE s0
       [] ks = PRESSED ->
            IF TimeSub(now, s0.holdTimer) >= holdTime
              THEN transitionTo(s0, idx, HOLD)
              ELSE IF button = KEYPAD_OPEN
                     THEN transitionTo(s0, idx, RELEASED)
                     ELSE s0
       [] ks = HOLD ->
            IF button = KEYPAD_OPEN THEN transitionTo(s0, idx, RELEASED) ELSE s0
       [] ks = RELEASED -> transitionTo(s0, idx, IDLE)

nextKeyState(st, idx, button, now) ==
  LET s0 == [st EXCEPT !.key[idx].stateChanged = FALSE]
      ks == st.key[idx].kstate
  IN CASE ks = IDLE ->
            IF button = KEYPAD_CLOSED
              THEN [transitionTo(s0, idx, PRESSED) EXCEPT !.holdTimer = now]
              ELSE s0
       [] ks = PRESSED ->
            IF TimeSub(now, s0.holdTimer) > holdTime
              THEN transitionTo(s0, idx, HOLD)
              ELSE IF button = KEYPAD_OPEN
                     THEN transitionTo(s0, idx, RELEASED)
                     ELSE s0
       [] ks = HOLD ->
            IF button = KEYPAD_OPEN THEN transitionTo(s0, idx, RELEASED) ELSE s0
       [] ks = RELEASED -> transitionTo(s0, idx, IDLE)

\* nextKeyState, with the call written to the log: the slot, the state
\* before and after, the contact, the time since the hold anchor as the
\* call found it, and the time since the entry's own press (pressTime).
CallNextKeyState(st, idx, button, now) ==
  LET s1 == nextKeyState(st, idx, button, now)
  IN [s1 EXCEPT !.calls = Append(st.calls,
        [idx |-> idx, from |-> st.key[idx].kstate, button |-> button,
         elapsed |-> TimeSub(now, st.holdTimer), limit |-> holdTime,
         own |-> IF st.key[idx].kstate = PRESSED
                   THEN TimeSub(now, pressTime[idx]) ELSE 0,
         to |-> s1.key[idx].kstate, anchor |-> s1.holdTimer])]

\* ----------------------------------------------------------- updateList --

RECURSIVE FindCode(_, _, _)
\* findInList(byte keyCode): the first slot from i on whose kcode is keyCode, or -1.
FindCode(k, keyCode, i) ==
  IF i >= LIST_MAX THEN -1
  ELSE IF k[i].kcode = keyCode THEN i
  ELSE FindCode(k, keyCode, i + 1)

\* findInList whose loop starts at slot 1.
findInListSkipFirst(k, keyCode) == FindCode(k, keyCode, 1)

findInList(k, keyCode) == FindCode(k, keyCode, 0)

\* The rescan that tests kcode against KEYPAD_NO_KEY and so finds no slot.
FirstFreeByCode(k, i) == NoPos

\* The rescan that takes the first slot whatever it holds.
FirstFreeAnySlot(k, i) == i

RECURSIVE FirstFree(_, _)
\* The rescan for an empty slot: the first slot from i on whose kchar is
\* KEYPAD_NO_KEY, or 0xFF.
FirstFree(k, i) ==
  IF i >= LIST_MAX THEN NoPos
  ELSE IF k[i].kchar = KEYPAD_NO_KEY THEN i
  ELSE FirstFree(k, i + 1)

RECURSIVE DeleteIdleOrReleased(_, _)
\* The cleanup pass that also deletes RELEASED entries.
DeleteIdleOrReleased(st, i) ==
  IF i >= LIST_MAX THEN st
  ELSE LET k1 == IF st.key[i].kstate \in {IDLE, RELEASED}
                   THEN [st.key EXCEPT ![i].kchar = KEYPAD_NO_KEY,
                                       ![i].kcode = NoCode,
                                       ![i].kstate = IDLE,
                                       ![i].stateChanged = FALSE]
                   ELSE st.key
           e1 == IF st.emptyPos = NoPos /\ k1[i].kchar = KEYPAD_NO_KEY
                   THEN i ELSE st.emptyPos
       IN DeleteIdleOrReleased([st EXCEPT !.key = k1, !.emptyPos = e1], i + 1)

RECURSIVE DeleteIdleKeepsKey(_, _)
\* The cleanup pass that clears the flag of an IDLE entry and keeps its key.
DeleteIdleKeepsKey(st, i) ==
  IF i >= LIST_MAX THEN st
  ELSE LET k1 == IF st.key[i].kstate = IDLE
                   THEN [st.key EXCEPT ![i].stateChanged = FALSE]
                   ELSE st.key
           e1 == IF st.emptyPos = NoPos /\ k1[i].kchar = KEYPAD_NO_KEY
                   THEN i ELSE st.emptyPos
       IN DeleteIdleKeepsKey([st EXCEPT !.key = k1, !.emptyPos = e1], i + 1)

RECURSIVE DeleteIdleTestFirst(_, _)
\* The cleanup pass that looks for the empty slot before it clears the slot.
DeleteIdleTestFirst(st, i) ==
  IF i >= LIST_MAX THEN st
  ELSE LET e1 == IF st.emptyPos = NoPos /\ st.key[i].kchar = KEYPAD_NO_KEY
                   THEN i ELSE st.emptyPos
           k1 == IF st.key[i].kstate = IDLE
                   THEN [st.key EXCEPT ![i].kchar = KEYPAD_NO_KEY,
                                       ![i].kcode = NoCode,
                                       ![i].stateChanged = FALSE]
                   ELSE st.key
       IN DeleteIdleTestFirst([st EXCEPT !.key = k1, !.emptyPos = e1], i + 1)

RECURSIVE DeleteIdle(_, _)
\* The first loop of updateList from slot i on.
DeleteIdle(st, i) ==
  IF i >= LIST_MAX THEN st
  ELSE LET k1 == IF st.key[i].kstate = IDLE
                   THEN [st.key EXCEPT ![i].kchar = KEYPAD_NO_KEY,
                                       ![i].kcode = NoCode,
                                       ![i].stateChanged = FALSE]
                   ELSE st.key
           e1 == IF st.emptyPos = NoPos /\ k1[i].kchar = KEYPAD_NO_KEY
                   THEN i ELSE st.emptyPos
       IN DeleteIdle([st EXCEPT !.key = k1, !.emptyPos = e1], i + 1)

\* The loop body that takes the character of the next key of the keymap.
UpdateCellNextChar(st, bm, r, c, now) ==
  LET button  == bitRead(bm[r], c)
      keyCode == (r * Cols + c) % ByteMod
      keyChar == keymap[((keyCode + 1) % (Rows * Cols)) + 1]
      idx     == findInList(st.key, keyCode)
  IN IF idx >= 0
       THEN CallNextKeyState(st, idx, button, now)
       ELSE IF button /\ st.emptyPos # NoPos
         THEN LET s1 == [st EXCEPT !.key[st.emptyPos].kchar = keyChar,
                                   !.key[st.emptyPos].kcode = keyCode,
                                   !.key[st.emptyPos].kstate = IDLE]
                  s2 == CallNextKeyState(s1, st.emptyPos, button, now)
              IN [s2 EXCEPT !.emptyPos = FirstFree(s2.key, 0)]
         ELSE st

\* The body of the nested loops of updateList for the cell (r, c).
UpdateCell(st, bm, r, c, now) ==
  LET button  == bitRead(bm[r], c)
      keyCode == (r * Cols + c) % ByteMod
      keyChar == keymap[keyCode + 1]
      idx     == findInList(st.key, keyCode)
  IN IF idx >= 0
       THEN CallNextKeyState(st, idx, button, now)
       ELSE IF button /\ st.emptyPos # NoPos
         THEN LET s1 == [st EXCEPT !.key[st.emptyPos].kchar = keyChar,
                                   !.key[st.emptyPos].kcode = keyCode,
                                   !.key[st.emptyPos].kstate = IDLE]
                  s2 == CallNextKeyState(s1, st.emptyPos, button, now)
              IN [s2 EXCEPT !.emptyPos = FirstFree(s2.key, 0)]
         ELSE st

RECURSIVE UpdateCols(_, _, _, _, _)
UpdateCols(st, bm, r, c, now) ==
  IF c >= Cols THEN st
  ELSE UpdateCols(UpdateCell(st, bm, r, c, now), bm, r, c + 1, now)

RECURSIVE UpdateRowsLastFirst(_, _, _, _)
\* The outer loop running from the last row to the first.
UpdateRowsLastFirst(st, bm, r, now) ==
  IF r >= Rows THEN st
  ELSE UpdateCols(UpdateRowsLastFirst(st, bm, r + 1, now), bm, r, 0, now)

RECURSIVE UpdateRows(_, _, _, _)
UpdateRows(st, bm, r, now) ==
  IF r >= Rows THEN st
  ELSE UpdateRows(UpdateCols(st, bm, r, 0, now), bm, r + 1, now)

\* The last loop stopped after the first slot.
AnyChangedFirstSlot(k) == k[0].stateChanged

\* The last loop of updateList: true when some slot has stateChanged set.
AnyChanged(k) == \E i \in Slots : k[i].stateChanged

\* updateList() run at time `now` on the bitmap bm. The result carries the
\* new key list and hold anchor, the logs, and the value returned.
updateList(k, ht, bm, now) ==
  LET s0 == [key |-> k, holdTimer |-> ht, events |-> << >>, calls |-> << >>,
             emptyPos |-> NoPos]
      s1 == DeleteIdle(s0, 0)
      s2 == UpdateRows(s1, bm, 0, now)
  IN [key |-> s2.key, holdTimer |-> s2.holdTimer, events |-> s2.events,
      calls |-> s2.calls, ret |-> AnyChanged(s2.key)]

\* ------------------------------------------------------------ isPressed --

RECURSIVE FindChar(_, _, _)
\* findInList(char keyChar): the first slot from i on whose kchar is keyChar,
\* or -1.
FindChar(k, keyChar, i) ==
  IF i >= LIST_MAX THEN -1
  ELSE IF k[i].kchar = keyChar THEN i
  ELSE FindChar(k, keyChar, i + 1)

\* isPressed that looks only at the first entry with the character.
isPressedFirstMatch(k, keyChar) ==
  LET idx == FindChar(k, keyChar, 0)
  IN idx >= 0 /\ k[idx].kstate = PRESSED /\ k[idx].stateChanged

RECURSIVE IsPressedFrom(_, _, _)
\* The loop of isPressed from slot i on.
IsPressedFrom(k, keyChar, i) ==
  IF i >= LIST_MAX THEN FALSE
  ELSE IF k[i].kchar = keyChar /\ k[i].kstate = PRESSED /\ k[i].stateChanged THEN TRUE
  ELSE IsPressedFrom(k, keyChar, i + 1)

isPressed(k, keyChar) == IsPressedFrom(k, keyChar, 0)

\* -------------------------------------------------------------- getKeys --

\* The gate without the subtraction of startTime.
GateOpenNoElapsed(now) == now > debounceTime

\* The gate compared against the hold time.
GateOpenHoldTime(now) == TimeSub(now, startTime) > holdTime

\* The gate as a comparison of the counter with the time of the next scan.
GateOpenCompare(now) == now > startTime + debounceTime

\* The poll gate: scan when more than debounceTime has passed.
GateOpen(now) == TimeSub(now, startTime) > debounceTime

\* pressTime[i]: when the entry of slot i made its own IDLE -> PRESSED
\* transition, kept while the entry is PRESSED (0 otherwise).
NextPressTime(k, now) ==
  [i \in Slots |-> IF k[i].kstate = PRESSED
                     THEN (IF k[i].stateChanged THEN now ELSE pressTime[i])
                     ELSE 0]

\* The key codes whose bit is set in the bitmap bm.
ClosedCodes(bm) == {code \in Codes : bitRead(bm[code \div Cols], code % Cols)}

\* The history of a slot that has had no entry since it was last cleared.
NoHistory == [reported |-> << >>, late |-> FALSE, openFor |-> 0]

\* The states the stated listener was called with for slot i, in order.
StatesOf(ev, i) ==
  LET mine == SelectSeq(ev, LAMBDA e : e.listener = "keypadStatedEventListener" /\ e.idx = i)
  IN [n \in DOMAIN mine |-> mine[n].kstate]

\* history[i] after an update that took the list from k0 to k1 and the bitmap
\* from bm0 to bm1, reporting ev:
\*   reported: the states reported for the entry of slot i since the cleanup
\*             pass last cleared the slot;
\*   late:     the entry registers a key that the update before had found
\*             closed and left off the list;
\*   openFor:  for how many updates in a row the contact of the slot's
\*             occupant has read open (0 for an entry just registered).
NextHistory(k0, k1, ev, bm0, bm1) ==
  [i \in Slots |->
     [reported |-> IF k0[i].kstate = IDLE
                     THEN StatesOf(ev, i)
                     ELSE history[i].reported \o StatesOf(ev, i),
      late     |-> IF k1[i].kcode = NoCode THEN FALSE
                   ELSE IF k0[i].kstate = IDLE
                     THEN /\ k1[i].kcode \in ClosedCodes(bm0)
                          /\ \A j \in Slots : k0[j].kcode # k1[i].kcode
                     ELSE history[i].late,
      openFor  |-> IF k0[i].kstate = IDLE /\ k1[i].kcode # NoCode THEN 0
                   ELSE IF k0[i].kchar # KEYPAD_NO_KEY /\ k0[i].kcode \notin ClosedCodes(bm1)
                     THEN history[i].openFor + 1
                     ELSE 0]]

\* getKeys() called while the contacts in `closed` are closed. The call is
\* short against a millisecond: all its clock reads return the same value.
GetKeys(closed) ==
  IF GateOpen(clock)
    THEN \E sc \in {scanKeys(bitMap, closed)} :
         \E u \in {updateList(key, holdTimer, sc.bitMap, clock)} :
            /\ bitMap' = sc.bitMap
            /\ pinOps' = sc.pinOps
            /\ key' = u.key
            /\ holdTimer' = u.holdTimer
            /\ events' = u.events
            /\ calls' = u.calls
            /\ pressTime' = NextPressTime(u.key, clock)
            /\ history' = NextHistory(key, u.key, u.events, bitMap, sc.bitMap)
            /\ ret' = u.ret
            /\ startTime' = clock
            /\ UNCHANGED <<clock, debounceTime, holdTime, keymap, keypadEventListener,
                           keypadStatedEventListener>>
    ELSE /\ ret' = FALSE
         /\ events' = << >>
         /\ calls' = << >>
         /\ pinOps' = << >>
         /\ UNCHANGED <<clock, startTime, holdTimer, debounceTime, holdTime, keymap,
                        bitMap, key, keypadEventListener, keypadStatedEventListener,
                        pressTime, history>>

\* ------------------------------------------------------- other operations --

\* One millisecond passes.
Tick ==
  /\ clock < MaxClock
  /\ clock' = (clock + 1) % Modulus
  /\ UNCHANGED <<startTime, holdTimer, debounceTime, holdTime, keymap, bitMap, key,
                 keypadEventListener, keypadStatedEventListener, ret, events,
                 calls, pinOps, pressTime, history>>

\* One millisecond passes in a run that started when the counter read
\* `origin` and that lasts `length` milliseconds; the counter overflows to 0.
Elapse(origin, length) ==
  /\ TimeSub(clock, origin) < length
  /\ clock' = (clock + 1) % Modulus
  /\ UNCHANGED <<startTime, holdTimer, debounceTime, holdTime, keymap, bitMap, key,
                 keypadEventListener, keypadStatedEventListener, ret, events,
                 calls, pinOps, pressTime, history>>

SetDebounceTime(debounce) ==
  /\ debounceTime' = (IF debounce < 1 THEN 1 ELSE debounce)
  /\ UNCHANGED <<clock, startTime, holdTimer, holdTime, keymap, bitMap, key,
                 keypadEventListener, keypadStatedEventListener, ret, events,
                 calls, pinOps, pressTime, history>>

SetHoldTime(hold) ==
  /\ holdTime' = hold
  /\ UNCHANGED <<clock, startTime, holdTimer, debounceTime, keymap, bitMap, key,
                 keypadEventListener, keypadStatedEventListener, ret, events,
                 calls, pinOps, pressTime, history>>

AddEventListener(listener) ==
  /\ keypadEventListener' = listener
  /\ UNCHANGED <<clock, startTime, holdTimer, debounceTime, holdTime, keymap, bitMap,
                 key, keypadStatedEventListener, ret, events, calls, pinOps, pressTime,
                 history>>

AddStatedEventListener(listener) ==
  /\ keypadStatedEventListener' = listener
  /\ UNCHANGED <<clock, startTime, holdTimer, debounceTime, holdTime, keymap, bitMap,
                 key, keypadEventListener, ret, events, calls, pinOps, pressTime,
                 history>>

\* ------------------------------------------------------- specifications --

\* The fields as the constructor and begin(keymap) leave them. The hold
\* anchor and the bitmap are not written by the constructor and not read
\* before nextKeyState and scanKeys have written them.
Constructed ==
  /\ clock = 0
  /\ startTime = 0
  /\ holdTimer = 0
  /\ keymap = UserKeymap
  /\ bitMap = [r \in 0 .. (Rows - 1) |-> 0]
  /\ key = [i \in Slots |-> EmptyKey]
  /\ ret = FALSE
  /\ events = << >>
  /\ calls = << >>
  /\ pinOps = << >>
  /\ pressTime = [i \in Slots |-> 0]
  /\ history = [i \in Slots |-> NoHistory]

\* Spec: the sketch has finished setup(): the shortest debounce time, a hold
\* time of MaxInterval and both listeners registered; loop() then polls
\* with any contacts closed.
Init ==
  /\ Constructed
  /\ debounceTime = 1
  /\ holdTime = MaxInterval
  /\ keypadEventListener = Listener
  /\ keypadStatedEventListener = Listener

Next ==
  \/ Tick
  \/ \E closed \in SUBSET Codes : GetKeys(closed)

Spec == Init /\ [][Next]_vars

\* In the two specifications below only the keys of ConfigKeys are ever
\* pressed.
ConfigKeys == {0, Rows * Cols - 1}

\* SpecIntervals: the sketch also changes the debounce and hold times while
\* it polls.
NextIntervals ==
  \/ Tick
  \/ \E closed \in SUBSET ConfigKeys : GetKeys(closed)
  \/ \E v \in 0 .. MaxInterval : SetDebounceTime(v)
  \/ \E v \in 1 .. MaxInterval : SetHoldTime(v)

SpecIntervals == Init /\ [][NextIntervals]_vars

\* SpecListeners: the sketch starts polling with the listeners as the
\* constructor leaves them, and registers and unregisters them while it
\* polls. keypadStatedEventListener is a pointer member the constructor does
\* not write.
InitListeners ==
  /\ Constructed
  /\ debounceTime = 1
  /\ holdTime = MaxInterval
  /\ keypadEventListener = NULL
  /\ keypadStatedEventListener \in {NULL, Indeterminate}

NextListeners ==
  \/ Tick
  \/ \E closed \in SUBSET ConfigKeys : GetKeys(closed)
  \/ \E l \in {NULL, Listener} : AddEventListener(l)
  \/ \E l \in {NULL, Listener} : AddStatedEventListener(l)

SpecListeners == InitListeners /\ [][NextListeners]_vars

\* SpecLong: as Spec with the keys of ConfigKeys, for LongClock milliseconds.
NextLong ==
  \/ Elapse(0, LongClock)
  \/ \E closed \in SUBSET ConfigKeys : GetKeys(closed)

SpecLong == Init /\ [][NextLong]_vars

\* SpecWrap: the sketch has been polling an idle keypad since boot and has
\* just scanned it, WrapLead milliseconds before the millisecond counter
\* overflows; the fields are as that scan left them.
InitWrap ==
  /\ clock = WrapStart
  /\ startTime = WrapStart
  /\ holdTimer = 0
  /\ debounceTime = 1
  /\ holdTime = MaxInterval
  /\ keymap = UserKeymap
  /\ bitMap = [r \in 0 .. (Rows - 1) |-> 0]
  /\ key = [i \in Slots |-> EmptyKey]
  /\ keypadEventListener = Listener
  /\ keypadStatedEventListener = Listener
  /\ ret = FALSE
  /\ events = << >>
  /\ calls = << >>
  /\ pinOps = scanKeys(bitMap, {}).pinOps
  /\ pressTime = [i \in Slots |-> 0]
  /\ history = [i \in Slots |-> NoHistory]

NextWrap ==
  \/ Elapse(WrapStart, WrapRun)
  \/ \E closed \in SUBSET ConfigKeys : GetKeys(closed)

SpecWrap == InitWrap /\ [][NextWrap]_vars

TypeOK ==
  /\ clock \in 0 .. (Modulus - 1)
  /\ startTime \in 0 .. (Modulus - 1)
  /\ holdTimer \in 0 .. (Modulus - 1)
  /\ debounceTime \in 1 .. MaxInterval
  /\ holdTime \in 1 .. MaxInterval
  /\ \A i \in Slots : key[i].kstate \in KeyStates

\* ================================================================ claims ==

\* A step in which getKeys scanned and updated the list: it is the only
\* step that writes startTime, and the gate makes the new value differ.
UpdateStep == startTime' # startTime

\* A getKeys call that did not scan: the only step that empties the logs.
GatedStep == pinOps # << >> /\ pinOps' = << >>

\* The slots that hold an entry the cleanup pass will keep.
Live(k) == {i \in Slots : k[i].kstate # IDLE}

\* The transition table of the state machine.
TableNext(from, closed, elapsed, limit) ==
  IF from = IDLE THEN (IF closed THEN PRESSED ELSE IDLE)
  ELSE IF from = PRESSED
    THEN (IF elapsed > limit THEN HOLD ELSE IF ~closed THEN RELEASED ELSE PRESSED)
  ELSE IF from = HOLD THEN (IF ~closed THEN RELEASED ELSE HOLD)
  ELSE IDLE

\* C1: every nextKeyState call of an update takes the entry from its state
\* to the state the transition table gives for (state, contact, time since
\* the hold anchor), and the hold anchor is set to the time of the update by
\* IDLE + closed and by no other call.
C1_TransitionTable ==
  \A n \in DOMAIN calls :
    /\ calls[n].from \in KeyStates
    /\ calls[n].to = TableNext(calls[n].from, calls[n].button, calls[n].elapsed,
                               calls[n].limit)
    /\ IF calls[n].from = IDLE /\ calls[n].button
         THEN calls[n].anchor = startTime
         ELSE TimeSub(startTime, calls[n].anchor) = calls[n].elapsed

\* C1 witness: a PRESSED entry whose contact is open is moved to HOLD because
\* the hold interval has passed.
C1_Witness ==
  \E n \in DOMAIN calls :
    /\ calls[n].from = PRESSED
    /\ ~calls[n].button
    /\ calls[n].elapsed > calls[n].limit
    /\ calls[n].to = HOLD

\* C2: an entry that is RELEASED when an update starts is IDLE, with the same
\* code and character, when that update ends, whatever its contact reads; so
\* it is RELEASED at the end of exactly one update.
C2_ReleasedOneCycle ==
  [][UpdateStep =>
       \A i \in Slots :
         key[i].kstate = RELEASED =>
           /\ key'[i].kstate = IDLE
           /\ key'[i].kcode = key[i].kcode
           /\ key'[i].kchar = key[i].kchar
           /\ key'[i].stateChanged]_vars

\* C2 witness: an update has moved a RELEASED entry to IDLE while its contact
\* was closed again.
C2_Witness ==
  \E n \in DOMAIN calls :
    /\ calls[n].from = RELEASED
    /\ calls[n].button
    /\ calls[n].to = IDLE
    /\ key[calls[n].idx].kstate = IDLE
    /\ key[calls[n].idx].kcode \in ClosedCodes(bitMap)

\* C3: a PRESSED entry whose contact stays closed moves to HOLD at the first
\* update at which the time since its own IDLE -> PRESSED transition exceeds
\* the hold interval.
C3_OwnHoldAnchor ==
  \A n \in DOMAIN calls :
    (calls[n].from = PRESSED /\ calls[n].button /\ calls[n].own > calls[n].limit)
      => calls[n].to = HOLD

\* C9: no two slots hold the same key code, the code of an empty slot apart.
C9_OneEntryPerCode ==
  \A i, j \in Slots :
    (i # j /\ key[i].kcode # NoCode) => key[i].kcode # key[j].kcode

\* C9 witness: the list is full of distinct keys and the update has found
\* an entry that was already on the list.
C9_Witness ==
  /\ \A i \in Slots : key[i].kcode \in Codes
  /\ \E n \in DOMAIN calls : calls[n].from # IDLE /\ calls[n].idx = 0
  /\ Cardinality(ClosedCodes(bitMap)) >= 2

\* The time since the last scan, as the gate computes it.
SinceScan == TimeSub(clock, startTime)

\* The length of the pin log of one full scan.
ScanOps == Rows * (Cols + 2)

\* C4 as stated: a poll scans, records the time and returns the changed flag
\* whenever the time since the last scan is at least the debounce time.
C4_GateAtLeast ==
  [][/\ GatedStep => SinceScan < debounceTime
     /\ UpdateStep =>
          /\ startTime' = clock'
          /\ Len(pinOps') = ScanOps
          /\ ret' = (\E i \in Slots : key'[i].stateChanged)]_vars

\* C4 amended: a poll scans, records the time and returns the changed flag
\* whenever the time since the last scan is greater than the debounce time;
\* when it is equal to (or less than) the debounce time the poll does not
\* scan and returns false.
C4_GateStrict ==
  [][/\ GatedStep => (SinceScan <= debounceTime /\ ret' = FALSE)
     /\ UpdateStep =>
          /\ SinceScan > debounceTime
          /\ startTime' = clock'
          /\ Len(pinOps') = ScanOps
          /\ ret' = (\E i \in Slots : key'[i].stateChanged)]_vars

\* C4 witness: a poll has scanned with a debounce time of MaxInterval and
\* returned true.
C4_Witness ==
  /\ startTime = clock
  /\ startTime > MaxInterval
  /\ debounceTime = MaxInterval
  /\ Len(pinOps) = ScanOps
  /\ ret

\* C5: while less than the debounce time has passed since the last scan, no
\* step changes the bitmap, a key entry, the last-scan time or the hold
\* anchor, and a poll makes no pin access, fires no callback and returns
\* false.
C5_GatedPollNoOp ==
  [][SinceScan < debounceTime =>
       /\ UNCHANGED <<bitMap, key, startTime, holdTimer>>
       /\ pinOps' \in {pinOps, << >>}
       /\ events' \in {events, << >>}
       /\ GatedStep => (ret' = FALSE /\ events' = << >> /\ calls' = << >>)]_vars

\* C5 witness: a poll made in the millisecond of a scan that left entries on
\* the list has returned false without touching a pin.
C5_Witness ==
  /\ startTime > 0
  /\ clock = startTime
  /\ pinOps = << >>
  /\ events = << >>
  /\ ret = FALSE
  /\ Live(key) # {}
  /\ ClosedCodes(bitMap) # {}

\* The stated-listener calls of the log ev, as indices.
Stated(ev) == {n \in DOMAIN ev : ev[n].listener = "keypadStatedEventListener"}

\* C6: an update that starts with every slot empty and finds more than
\* LIST_MAX keys closed leaves LIST_MAX entries, all PRESSED, and reports
\* exactly one PRESSED per entry and nothing else; the list never holds more
\* than LIST_MAX entries.
C6_CapacityBound ==
  /\ [](Cardinality({i \in DOMAIN key : key[i].kchar # KEYPAD_NO_KEY}) <= LIST_MAX)
  /\ [][(/\ UpdateStep
         /\ \A i \in DOMAIN key : key[i].kchar = KEYPAD_NO_KEY
         /\ Cardinality(ClosedCodes(bitMap')) > LIST_MAX) =>
          /\ Cardinality({i \in DOMAIN key' : key'[i].kchar # KEYPAD_NO_KEY}) = LIST_MAX
          /\ \A i \in DOMAIN key' :
               /\ key'[i].kstate = PRESSED
               /\ key'[i].kcode \in ClosedCodes(bitMap')
          /\ Cardinality({key'[i].kcode : i \in DOMAIN key'}) = LIST_MAX
          /\ Cardinality(Stated(events')) = LIST_MAX
          /\ Len(events') = 2 * LIST_MAX
          /\ \A n \in DOMAIN events' :
               /\ events'[n].idx \in DOMAIN key'
               /\ events'[n].kchar = keymap[key'[events'[n].idx].kcode + 1]
          /\ \A n, m \in Stated(events') :
               n # m => events'[n].idx # events'[m].idx]_vars

\* C6 witness: the update found the list empty and more than LIST_MAX keys
\* closed, and filled every slot.
C6_Witness ==
  /\ Cardinality(ClosedCodes(bitMap)) > LIST_MAX
  /\ Len(calls) = LIST_MAX
  /\ \A n \in DOMAIN calls : calls[n].from = IDLE /\ calls[n].to = PRESSED
  /\ \A i \in Slots : key[i].kstate = PRESSED /\ key[i].stateChanged
  /\ \E code \in ClosedCodes(bitMap) : \A i \in Slots : key[i].kcode # code

\* The n lowest elements of the set of numbers S.
Lowest(S, n) == {c \in S : Cardinality({d \in S : d < c}) < n}

\* C7: the keys an update registers are the lowest codes among the closed
\* keys that were not tracked, as many as there were free slots.
C7_RowMajorTieBreak ==
  [][UpdateStep =>
       LET liveCodes == {key[i].kcode : i \in Live(key)}
           free == LIST_MAX - Cardinality(Live(key))
           newClosed == ClosedCodes(bitMap') \ liveCodes
           registered == {key'[i].kcode : i \in Slots \ Live(key)} \ {NoCode}
       IN registered = Lowest(newClosed, free)]_vars

\* C7 witness: one slot was free, the keys of codes 0 and 1 were newly
\* closed, and only code 0 is on the list.
C7_Witness ==
  /\ Cardinality({n \in DOMAIN calls : calls[n].from # IDLE}) = LIST_MAX - 1
  /\ \E n \in DOMAIN calls :
       /\ calls[n].from = IDLE
       /\ calls[n].to = PRESSED
       /\ key[calls[n].idx].kcode = 0
  /\ {0, 1} \subseteq ClosedCodes(bitMap)
  /\ \A i \in Slots : key[i].kcode # 1

\* C8: in an update, an entry whose state changes gets one call of each
\* registered listener, the character listener first and the stated listener
\* right after it, with the entry's character and new state; an entry whose
\* state does not change gets no call and has stateChanged false afterwards.
C8_EventFiring ==
  [][UpdateStep =>
       \A i \in Slots :
         LET mine == {n \in DOMAIN events' : events'[n].idx = i}
             chr == {n \in mine : /\ events'[n].listener = "keypadEventListener"
                                  /\ events'[n].ptr = Listener}
             std == {n \in mine : /\ events'[n].listener = "keypadStatedEventListener"
                                  /\ events'[n].ptr = Listener}
         IN IF key'[i].kstate # key[i].kstate
              THEN /\ key'[i].stateChanged
                   /\ Cardinality(chr) = (IF keypadEventListener = Listener THEN 1 ELSE 0)
                   /\ Cardinality(std) = (IF keypadStatedEventListener = Listener THEN 1 ELSE 0)
                   /\ \A n \in chr : events'[n].kchar = key'[i].kchar
                   /\ \A n \in std : /\ events'[n].kchar = key'[i].kchar
                                     /\ events'[n].kstate = key'[i].kstate
                   /\ \A n \in chr : \A m \in std : m = n + 1
              ELSE /\ mine = {}
                   /\ ~key'[i].stateChanged]_vars

\* C8 witness: with both listeners registered, one entry changed state and
\* got its two calls in order while another entry kept its state.
C8_Witness ==
  /\ keypadEventListener = Listener
  /\ keypadStatedEventListener = Listener
  /\ Len(events) = 2
  /\ events[1].listener = "keypadEventListener"
  /\ events[2].listener = "keypadStatedEventListener"
  /\ events[2].kstate = RELEASED
  /\ events[2].idx = events[1].idx
  /\ Len(calls) = 2
  /\ \E n \in DOMAIN calls : calls[n].from = calls[n].to /\ calls[n].from = PRESSED

\* The state last reported for a key code, read from the list.
Reported(k, code) ==
  IF \E j \in Slots : k[j].kcode = code
    THEN k[CHOOSE j \in Slots : k[j].kcode = code].kstate
    ELSE IDLE

\* C10: the states reported for a key code follow IDLE -> PRESSED ->
\* (HOLD ->) RELEASED -> IDLE: every change of an entry is reported, an entry
\* leaves the list only from IDLE, and a report of PRESSED follows IDLE, of
\* HOLD follows PRESSED, of RELEASED follows PRESSED or HOLD, of IDLE follows
\* RELEASED, at most one report per key in an update.
C10_NeverSkipsReleased ==
  [][UpdateStep =>
       /\ \A i \in Live(key) : key'[i].kcode = key[i].kcode
       /\ \A i \in Slots :
            key'[i].kstate # key[i].kstate =>
              \E n \in Stated(events') :
                events'[n].idx = i /\ events'[n].kstate = key'[i].kstate
       /\ \A n, m \in Stated(events') :
            n # m => events'[n].idx # events'[m].idx
       /\ \A n \in Stated(events') :
            LET prior == Reported(key, key'[events'[n].idx].kcode)
                new == events'[n].kstate
            IN /\ new = PRESSED => prior = IDLE
               /\ new = HOLD => prior = PRESSED
               /\ new = RELEASED => prior \in {PRESSED, HOLD}
               /\ new = IDLE => prior = RELEASED
               /\ new \in KeyStates]_vars

\* C10 witness: a key that is closed again is reported IDLE after RELEASED
\* while another key is reported PRESSED.
C10_Witness ==
  /\ \E n \in Stated(events) :
       /\ events[n].kstate = IDLE
       /\ key[events[n].idx].kcode \in ClosedCodes(bitMap)
  /\ \E n \in Stated(events) : events[n].kstate = PRESSED

\* The calls of the stated listener in the log ev, in order, as pairs of
\* character and state.
StatedSeq(ev) ==
  LET mine == SelectSeq(ev, LAMBDA e : e.listener = "keypadStatedEventListener")
  IN [n \in DOMAIN mine |-> <<mine[n].kchar, mine[n].kstate>>]

\* The slot that tracks the key code, or 0 when none does.
SlotOf(k, code) ==
  IF \E j \in Slots : k[j].kcode = code
    THEN CHOOSE j \in Slots : k[j].kcode = code
    ELSE 0

\* An update step in which the key `code` is the only key tracked or closed.
AloneStep(code) ==
  /\ UpdateStep
  /\ \A i \in Slots : key[i].kcode \in {code, NoCode}
  /\ ClosedCodes(bitMap') \subseteq {code}

\* The states a key may have been reported in, in order, so far.
Lifecycles ==
  {<< >>, <<PRESSED>>, <<PRESSED, HOLD>>, <<PRESSED, HOLD, RELEASED>>,
   <<PRESSED, HOLD, RELEASED, IDLE>>, <<PRESSED, RELEASED>>,
   <<PRESSED, RELEASED, IDLE>>}

C12_ReturnsAnyChanged ==
  [][UpdateStep =>
       /\ (ret' = TRUE) <=> (\E i \in Slots : key'[i].stateChanged = TRUE)
       /\ (ret' = FALSE) <=> (\A i \in Slots : key'[i].stateChanged = FALSE)]_vars

\* C12 witness: an update has returned true with the flag set in the last
\* slot only, the first slot holding an entry that kept its state.
C12_Witness ==
  /\ Len(pinOps) = ScanOps
  /\ ret = TRUE
  /\ key[LIST_MAX - 1].stateChanged
  /\ \A i \in Slots \ {LIST_MAX - 1} : ~key[i].stateChanged /\ key[i].kstate # IDLE

\* The characters a sketch may ask isPressed about: those of the keymap, the
\* character of an empty slot, and one that no key has.
AskedChars == {keymap[n] : n \in DOMAIN keymap} \cup {KEYPAD_NO_KEY, "z"}

\* C13: after an update, isPressed(c) is true exactly when some entry with
\* character c went from IDLE to PRESSED in that update; at any time it is
\* true exactly when some entry with character c is PRESSED with its
\* stateChanged flag set.
C13_IsPressedFresh ==
  /\ [](\A c \in AskedChars :
          isPressed(key, c) <=>
            \E i \in Slots : /\ key[i].kchar = c
                              /\ key[i].kstate = PRESSED
                              /\ key[i].stateChanged)
  /\ [][UpdateStep =>
          \A c \in AskedChars :
            isPressed(key', c) <=>
              \E n \in DOMAIN calls' :
                /\ calls'[n].from = IDLE
                /\ calls'[n].to = PRESSED
                /\ key'[calls'[n].idx].kchar = c]_vars

\* C13 witness: two keys share a character; the first slot holds one of them
\* in HOLD, a later slot the other, pressed in the last update, and
\* isPressed is true for their character and false for every other.
C13_Witness ==
  \E i \in Slots \ {0} :
    /\ key[0].kstate = HOLD
    /\ key[i].kchar = key[0].kchar
    /\ key[i].kstate = PRESSED
    /\ isPressed(key, key[0].kchar)
    /\ \A c \in AskedChars \ {key[0].kchar} : ~isPressed(key, c)

RECURSIVE RowLevels(_, _)
\* The levels of the row pins after the first n accesses of the log ops,
\* the pins being as begin() or the scan before left them.
RowLevels(ops, n) ==
  IF n = 0 THEN InitRowPins
  ELSE LET before == RowLevels(ops, n - 1)
       IN IF ops[n].op = "write"
            THEN [before EXCEPT ![ops[n].pin] = ops[n].level]
            ELSE before

\* The row pins that are at the active level.
ActiveRows(levels) == {p \in DOMAIN levels : levels[p] = LOW}

\* C14: throughout a scan at most one row pin is LOW; every column read
\* stored in bitmap row r is made while the pin of row r, and no other, is
\* LOW; a row pin is driven LOW only while no row pin is LOW; and every row
\* pin is HIGH when the scan ends. A scan reads every column under every row.
C14_OneRowActive ==
  /\ \A n \in 0 .. Len(pinOps) : Cardinality(ActiveRows(RowLevels(pinOps, n))) <= 1
  /\ \A n \in DOMAIN pinOps :
       LET active == ActiveRows(RowLevels(pinOps, n - 1))
       IN /\ pinOps[n].op = "read" => active = {rowPins(pinOps[n].row)}
          /\ (pinOps[n].op = "write" /\ pinOps[n].level = LOW) => active = {}
          /\ (pinOps[n].op = "write" /\ pinOps[n].level = HIGH) => active = {pinOps[n].pin}
  /\ ActiveRows(RowLevels(pinOps, Len(pinOps))) = {}
  /\ pinOps # << >> =>
       \A r \in 0 .. (Rows - 1) : \A c \in 0 .. (Cols - 1) :
         Cardinality({n \in DOMAIN pinOps : /\ pinOps[n].op = "read"
                                            /\ pinOps[n].row = r
                                            /\ pinOps[n].pin = columnPins(c)}) = 1

\* C14 witness: a scan has found keys closed in the first and in the last
\* row.
C14_Witness ==
  /\ Len(pinOps) = ScanOps
  /\ bitMap[0] # 0
  /\ bitMap[Rows - 1] # 0
  /\ pinOps[1] = [op |-> "write", pin |-> rowPins(0), level |-> LOW]
  /\ pinOps[ScanOps] = [op |-> "write", pin |-> rowPins(Rows - 1), level |-> HIGH]

\* The milliseconds from the start of a run across the overflow to the
\* moment the counter read t.
RunTime(t) == IF t >= WrapStart THEN t - WrapStart ELSE t + Modulus - WrapStart

\* C15: in a run across the overflow of the millisecond counter, a poll
\* scans exactly when more than the debounce time has really passed since
\* the last scan, and a PRESSED entry goes to HOLD exactly when more than the
\* hold time has really passed since the hold anchor was set, whether or not
\* the counter has overflowed in between.
C15_WrapSafe ==
  /\ [](\A n \in DOMAIN calls :
          calls[n].from = PRESSED =>
            (calls[n].to = HOLD <=>
               RunTime(startTime) - RunTime(calls[n].anchor) > calls[n].limit))
  /\ [][/\ GatedStep => RunTime(clock) - RunTime(startTime) <= debounceTime
        /\ UpdateStep => RunTime(clock) - RunTime(startTime) > debounceTime]_vars

\* C15 witness: the hold anchor was set before the overflow, and the first
\* update after the overflow, when the hold time had just passed, has moved
\* the entry to HOLD.
C15_Witness ==
  \E n \in DOMAIN calls :
    /\ calls[n].from = PRESSED
    /\ calls[n].to = HOLD
    /\ calls[n].anchor >= WrapStart
    /\ startTime < calls[n].anchor
    /\ RunTime(startTime) - RunTime(calls[n].anchor) = calls[n].limit + 1

\* The slots in which the update that wrote the call log c registered a key.
RegisteredIn(c) == {c[n].idx : n \in {m \in DOMAIN c : c[m].from = IDLE}}

\* The keymap has no KEYPAD_NO_KEY character.
NoNoneInKeymap == \A n \in DOMAIN keymap : keymap[n] # KEYPAD_NO_KEY

\* C16: with a keymap that has no KEYPAD_NO_KEY character, an update leaves
\* every entry that is PRESSED, HOLD or RELEASED in its slot with its code
\* and its character; the slots it clears or writes a key into were IDLE
\* when it started, so that the cleanup pass had emptied them; and an entry
\* on the list always has the code and the keymap character of its key.
C16_SlotsStable ==
  /\ [](NoNoneInKeymap =>
          \A i \in Slots :
            IF key[i].kcode = NoCode
              THEN key[i].kchar = KEYPAD_NO_KEY /\ key[i].kstate = IDLE
              ELSE key[i].kcode \in Codes /\ key[i].kchar = keymap[key[i].kcode + 1])
  /\ [][(UpdateStep /\ NoNoneInKeymap) =>
          \A i \in Slots :
            /\ key[i].kstate \in {PRESSED, HOLD, RELEASED} =>
                 /\ key'[i].kcode = key[i].kcode
                 /\ key'[i].kchar = key[i].kchar
                 /\ i \notin RegisteredIn(calls')
            /\ key[i].kstate = IDLE =>
                 IF i \in RegisteredIn(calls')
                   THEN key'[i].kstate = PRESSED /\ key'[i].kcode \in ClosedCodes(bitMap')
                   ELSE key'[i] = EmptyKey]_vars

\* C16 witness: an update has registered a key in the first slot, which an
\* earlier key had left, while the entry of the last slot stayed in HOLD in
\* its place.
C16_Witness ==
  /\ 0 \in RegisteredIn(calls)
  /\ key[0].kstate = PRESSED
  /\ key[LIST_MAX - 1].kstate = HOLD
  /\ ~key[LIST_MAX - 1].stateChanged
  /\ history[LIST_MAX - 1].reported = <<PRESSED, HOLD>>

\* The lowest number of the non-empty set S.
Min(S) == CHOOSE c \in S : \A d \in S : c <= d

\* C17: when the last update found a key closed and left it off the list,
\* the list is full; if that key is still closed at the first update that
\* finds an IDLE entry to clear, that update registers the lowest closed key
\* that no kept entry tracks in the first slot it cleared, and reports it
\* PRESSED with its character.
C17_DroppedPressRegistered ==
  [][UpdateStep =>
       LET tracked == {key[i].kcode : i \in Slots}
           dropped == (ClosedCodes(bitMap) \cap ClosedCodes(bitMap')) \ tracked
           cleared == {i \in Slots : key[i].kstate = IDLE}
           untracked == ClosedCodes(bitMap') \ {key[i].kcode : i \in Live(key)}
       IN dropped # {} =>
            /\ \A i \in Slots : key[i].kchar # KEYPAD_NO_KEY
            /\ cleared = {} => \A c \in dropped : \A i \in Slots : key'[i].kcode # c
            /\ cleared # {} =>
                 LET c == Min(untracked)
                     i == Min(cleared)
                 IN /\ key'[i].kcode = c
                    /\ key'[i].kchar = keymap[c + 1]
                    /\ key'[i].kstate = PRESSED
                    /\ key'[i].stateChanged
                    /\ history'[i].late = (c \in dropped)
                    /\ \E n \in Stated(events') :
                         /\ events'[n].idx = i
                         /\ events'[n].kchar = keymap[c + 1]
                         /\ events'[n].kstate = PRESSED]_vars

\* C17 witness: an update has registered, and reported PRESSED, a key that
\* the update before had found closed and left off the full list; every
\* other slot holds an entry that was there before.
C17_Witness ==
  \E i \in Slots :
    /\ history[i].late
    /\ history[i].reported = <<PRESSED>>
    /\ key[i].kstate = PRESSED
    /\ key[i].stateChanged
    /\ RegisteredIn(calls) = {i}
    /\ \A j \in Slots \ {i} : key[j].kstate \in {PRESSED, HOLD}

\* C18: with the hold time unchanged, an entry goes to HOLD only at an update
\* at which more than the hold time has passed since its own IDLE -> PRESSED
\* transition, whatever happened to other keys in between.
C18_NoEarlyHold ==
  \A n \in DOMAIN calls :
    (calls[n].from = PRESSED /\ calls[n].to = HOLD) =>
      /\ calls[n].own > calls[n].limit
      /\ calls[n].own >= calls[n].elapsed
      /\ calls[n].limit = holdTime

\* C18 witness: an entry has gone to HOLD later than the hold time after its
\* own press, because a later press of another key had moved the hold
\* anchor, at the first update more than the hold time after that press.
C18_Witness ==
  \E n \in DOMAIN calls :
    /\ calls[n].from = PRESSED
    /\ calls[n].to = HOLD
    /\ calls[n].elapsed = calls[n].limit + 1
    /\ calls[n].own > calls[n].elapsed

\* C19: after an update, the stateChanged flag of a slot is set exactly when
\* the state of the slot's entry is not what it was before the update; so the
\* update returns true exactly when one of its nextKeyState calls made a
\* transition, which is exactly when it called the listeners.
C19_NoStaleFlag ==
  [][UpdateStep =>
       /\ \A i \in Slots : key'[i].stateChanged <=> (key'[i].kstate # key[i].kstate)
       /\ ret' <=> (\E n \in DOMAIN calls' : calls'[n].from # calls'[n].to)
       /\ ret' <=> (\E i \in Slots : key'[i].kstate # key[i].kstate)
       /\ (keypadEventListener # NULL \/ keypadStatedEventListener # NULL) =>
            (ret' <=> events' # << >>)]_vars

\* C19 witness: an update has found every entry of a full list unchanged,
\* one of them still PRESSED after the update that had set its flag, and has
\* returned false with no flag set.
C19_Witness ==
  /\ Len(pinOps) = ScanOps
  /\ ret = FALSE
  /\ Len(calls) = LIST_MAX
  /\ \A i \in Slots : key[i].kstate \in {PRESSED, HOLD} /\ ~key[i].stateChanged
  /\ \E i \in Slots : key[i].kstate = PRESSED /\ history[i].reported = <<PRESSED>>

\* The number of updates an entry needs at most to leave the list once its
\* contact stays open.
UpdatesLeft(e) ==
  IF e.kchar = KEYPAD_NO_KEY THEN 0
  ELSE IF e.kstate = IDLE THEN 1
  ELSE IF e.kstate = RELEASED THEN 2
  ELSE IF e.kstate = HOLD THEN 3
  ELSE 4

\* C20: an update that reads the contact of an entry open moves the entry one
\* step or more along PRESSED, HOLD, RELEASED, IDLE, cleared, keeping its
\* code until it is cleared; so an entry whose contact has read open for n
\* updates in a row is at most 4 - n updates from being cleared, and after
\* four such updates its slot is empty.
C20_SlotsFreed ==
  /\ [](\A i \in Slots :
          /\ UpdatesLeft(key[i]) + history[i].openFor <= 4
          /\ history[i].openFor >= 4 => key[i] = EmptyKey)
  /\ [][UpdateStep =>
          \A i \in Slots :
            (key[i].kchar # KEYPAD_NO_KEY /\ key[i].kcode \notin ClosedCodes(bitMap')) =>
              IF key[i].kstate = IDLE
                THEN \A j \in Slots : key'[j].kcode # key[i].kcode
                ELSE /\ key'[i].kcode = key[i].kcode
                     /\ UpdatesLeft(key'[i]) < UpdatesLeft(key[i])]_vars

\* C20 witness: the fourth update in a row that read the contact of an entry
\* open has cleared its slot; the entry had been PRESSED before the first.
C20_Witness ==
  \E i \in Slots :
    /\ history[i].openFor = 4
    /\ key[i].kchar = KEYPAD_NO_KEY
    /\ key[i].kcode = NoCode
    /\ key[i].kstate = IDLE

====
